---- MODULE Spec2Model ----
(***************************************************************************)
(* The lazy tool-loading / exit-stack lifecycle of the GitHub agent        *)
(* samples, as three variants of the same binder:                          *)
(*   ss    src/adk_agent_samples/github_agent/ss.py                        *)
(*   ssss  src/adk_agent_samples/github_agent/ssss.py                      *)
(*   app   src/app.py                                                      *)
(* One behaviour is one Python process that has imported one of the three  *)
(* modules and then makes a sequence of sequential (awaited) calls of the  *)
(* module's operations.  The external provider MCPToolset.from_server, the *)
(* token validation and AsyncExitStack.aclose are inputs: each call draws  *)
(* their outcome from a small set.                                         *)
(***************************************************************************)
EXTENDS Integers, Sequences, FiniteSets, TLC

VARIABLES
    file,              \* which module this process imported
    GITHUB_TOKEN,      \* module global GITHUB_TOKEN: "None", "ghp" (starts with ghp_), "other"
    npm_ok,            \* whether `npm config get prefix` succeeds in this environment
    _tools,            \* module global _tools: None or Some(list of tool names)
    _exit_stack,       \* module global _exit_stack: NoHandle (None) or a handle id
    root_agent_tools,  \* root_agent.tools
    provLog,           \* history: every MCPToolset.from_server invocation and its outcome
    acloseLog,         \* history: every aclose() invocation, the handle and whether it raised
    calls,             \* history: every finished call, its result and the state it left
    pc,                \* entry point (async_main / main / test_mcp_filesystem): where it stands
    pending,           \* entry point: an exception is being unwound
    exit,              \* entry point: "none" while running, then "return" or "raise"
    implEnsured,       \* _run_async_impl: its _ensure_tools_loaded call has finished
    parentRuns,        \* history: every start of super()._run_async_impl and the tools it saw
    tpc,               \* concurrent callers of _ensure_tools_loaded: where each task stands
    overlap,           \* history: two callers were suspended in the provider call together
    _global_memory_manager,  \* memory_manager.py global: NoManager (None) or an instance
    managers,          \* every TimeAgentMemoryManager constructed so far, by instance id
    memCalls,          \* history: every finished memory manager call and its result
    event_history,     \* github_agent/agent.py EventHandler.event_history
    listeners,         \* EventHandler.listeners: event type -> enabled
    history_enabled,   \* EventHandler.history_enabled
    recorded,          \* history: every event log_event ever appended, in order
    logCount,          \* history: number of log_event calls made
    lastCall,          \* the latest EventHandler call: arguments, flags it saw, result, history before it
    ia_event_history,  \* mcp_agent/improved_agent.py EventHandler.event_history
    ia_listeners,      \* improved_agent EventHandler.listeners: event type -> list of callbacks
    ia_middleware,     \* improved_agent EventHandler.middleware: list of callbacks
    running,           \* the emit_event call the event loop is running, or "none"
    frames,            \* per task: the local state of its emit_event call
    notified,          \* history: the steps of the emit_event call that returned last
    emitCount,         \* history: emit_event calls started; in a session, events the runner yielded
    msgIdx,            \* process_agent_events: index of the message being processed
    failedAt           \* process_agent_events: message during which the runner raised, or 0

binderVars == <<file, GITHUB_TOKEN, npm_ok, _tools, _exit_stack, root_agent_tools,
                provLog, acloseLog, calls>>
mainVars == <<pc, pending, exit, implEnsured, parentRuns>>

raceVars == <<tpc, overlap>>

memVars == <<_global_memory_manager, managers, memCalls>>

ehVars == <<event_history, listeners, history_enabled, recorded, logCount, lastCall>>

iaVars == <<ia_event_history, ia_listeners, ia_middleware, running, frames, notified,
            emitCount, msgIdx, failedAt>>

vars == <<binderVars, mainVars, raceVars, memVars, ehVars, iaVars>>

\* Length of the longest call sequence explored.
MaxCalls == 4

\* Python's None for the handle global; handles are numbered from 1.
NoHandle == 0

\* Optional values: None is the empty tuple, Some(x) a one-element tuple.
None == <<>>
Some(x) == <<x>>

Files == {"ss", "ssss", "app"}

\* Tool lists the provider may return (tools are identified by tool.name).
ToolLists ==
    { <<>>,
      <<"toolA">>,
      <<"create_pull_request_review">>,
      <<"create_pull_request_review", "toolB">> }

\* Outcomes of one MCPToolset.from_server call: it raises, or returns a list.
ProviderOutcomes ==
    {[ok |-> FALSE, tools |-> <<>>]} \cup {[ok |-> TRUE, tools |-> ts] : ts \in ToolLists}

\* Outcomes of one aclose() call on an exit stack.
AcloseOutcomes == {"ok", "raise"}

\* Values of GITHUB_TOKEN after the module-level setup of each file.
InitialTokens(f) ==
    IF f = "ssss" THEN {"None", "ghp"} ELSE {"None", "ghp", "other"}

\* Outcomes of a token validation made inside initialize_web_agent_async.
ValidateOutcomes(f) ==
    IF f = "ssss" THEN {"raise", "ghp"} ELSE {"raise", "ghp", "other"}

----------------------------------------------------------------------------
\* The provider and the helpers around it.

\* tools = [tool for tool in tools if tool.name != 'create_pull_request_review']
filter_tools(ts) == SelectSeq(ts, LAMBDA t : t # "create_pull_request_review")

\* The handle the next successful from_server returns: a fresh one every time.
NextHandle == Cardinality({i \in DOMAIN provLog : provLog[i].ok}) + 1

\* provLog after a get_tools_async / get_github_tools call with result r.
Invoked(r, p) ==
    IF r.called
    THEN Append(provLog, [ok |-> p.ok, tools |-> p.tools,
                          h |-> IF p.ok THEN NextHandle ELSE NoHandle,
                          token |-> GITHUB_TOKEN'])
    ELSE provLog

RaisedBefore == [raised |-> TRUE, called |-> FALSE, tools |-> <<>>, exit_stack |-> NoHandle]
RaisedIn     == [raised |-> TRUE, called |-> TRUE, tools |-> <<>>, exit_stack |-> NoHandle]

\* ss.py get_tools_async: GITHUB_TOKEN.startswith raises on None, the npm prefix
\* lookup may raise, then from_server, then the filter.
ss_get_tools_async(token, p) ==
    IF token = "None" THEN RaisedBefore
    ELSE IF ~npm_ok THEN RaisedBefore
    ELSE IF ~p.ok THEN RaisedIn
    ELSE [raised |-> FALSE, called |-> TRUE,
          tools |-> filter_tools(p.tools), exit_stack |-> NextHandle]

\* ssss.py get_tools_async: from_server, then the filter.
ssss_get_tools_async(p) ==
    IF ~p.ok THEN RaisedIn
    ELSE [raised |-> FALSE, called |-> TRUE,
          tools |-> filter_tools(p.tools), exit_stack |-> NextHandle]

\* The record a finished call leaves in the history.
Return(op, res) ==
    calls' = Append(calls, [op |-> op, res |-> res,
                            tools |-> root_agent_tools',
                            gt |-> _tools', st |-> _exit_stack',
                            prov |-> Len(provLog'), rel |-> Len(acloseLog')])

----------------------------------------------------------------------------
\* The two callers that may run _ensure_tools_loaded concurrently.
Tasks == {"t1", "t2"}

\* `_global_memory_manager = None`
NoManager == 0

\* No concurrent callers exist.
RaceIdle ==
    /\ tpc = [t \in Tasks |-> "idle"]
    /\ overlap = FALSE

\* memory_manager.py right after import.
MemInit ==
    /\ _global_memory_manager = NoManager
    /\ managers = <<>>
    /\ memCalls = <<>>

\* No EventHandler call was made yet.
NoCall == [op |-> "none", event_type |-> "None", limit |-> 0,
           listening |-> <<>>, storing |-> FALSE,
           ret |-> None, result |-> <<>>, before |-> <<>>]

\* github_agent/agent.py: `event_handler = EventHandler()`.
EhInit ==
    /\ event_history = <<>>
    /\ listeners = [t \in {"user_message", "agent_response", "tool_call", "error"} |-> TRUE]
    /\ history_enabled = TRUE
    /\ recorded = <<>>
    /\ logCount = 0
    /\ lastCall = NoCall

\* improved_agent.py: class EventType.
EventType == {"user_message", "agent_response", "tool_call", "tool_response",
              "error", "session_start", "session_end"}

\* An emit_event call that is not running.
IdleFrame == [pc |-> "idle", type |-> "none", event |-> None, mi |-> 0, li |-> 0,
              cb |-> "", stable |-> {}, log |-> <<>>]

\* improved_agent.py after import: event_handler = EventHandler(), the four
\* add_listener calls and the two add_middleware calls.
IaInit ==
    /\ ia_event_history = <<>>
    /\ ia_listeners = [t \in EventType |->
                         CASE t = "user_message"   -> <<"on_user_message">>
                           [] t = "agent_response" -> <<"on_agent_response">>
                           [] t = "tool_call"      -> <<"on_tool_call">>
                           [] t = "error"          -> <<"on_error">>
                           [] OTHER                -> <<>>]
    /\ ia_middleware = <<"logging_middleware", "analytics_middleware">>
    /\ running = "none"
    /\ frames = [t \in Tasks |-> IdleFrame]
    /\ notified = [log |-> <<>>, stable |-> {}]
    /\ emitCount = 0
    /\ msgIdx = 0
    /\ failedAt = 0

Init ==
    /\ file \in Files
    /\ GITHUB_TOKEN \in InitialTokens(file)
    /\ npm_ok \in BOOLEAN
    /\ _tools = None
    /\ _exit_stack = NoHandle
    /\ root_agent_tools = <<>>
    /\ provLog = <<>>
    /\ acloseLog = <<>>
    /\ calls = <<>>
    /\ pc = "idle"
    /\ pending = FALSE
    /\ exit = "none"
    /\ implEnsured = FALSE
    /\ parentRuns = <<>>
    /\ RaceIdle
    /\ MemInit
    /\ EhInit
    /\ IaInit

----------------------------------------------------------------------------
\* ss.py

\* `if self.tools and len(self.tools) > 0: return True`
ss_tools_already_loaded(tools) == tools # <<>>

\* A load that ignores the cached global and acquires on every call.
ss_need_load_always(gt) == TRUE

\* `if _tools is None:` around the acquisition
ss_need_load(gt) == gt = None

\* A load that sets _tools to a placeholder list before awaiting the provider.
store_globals_partial(r) ==
    IF r.raised THEN <<Some(<<>>), _exit_stack>> ELSE <<Some(r.tools), r.exit_stack>>

\* A store that keeps a handle that is already there.
store_globals_keep_first(r) ==
    IF r.raised \/ _exit_stack # NoHandle
    THEN <<_tools, _exit_stack>>
    ELSE <<Some(r.tools), r.exit_stack>>

\* `_tools, _exit_stack = await get_tools_async()`: one tuple assignment, made
\* only when the call returned; a raise leaves both globals as they were.
store_globals(r) ==
    IF r.raised THEN <<_tools, _exit_stack>> ELSE <<Some(r.tools), r.exit_stack>>

\* An except branch that falls through to the success return.
ss_except_result_true == "True"

\* `except Exception as e: ... return False`
ss_except_result == "False"

ss_ensure_tools_loaded ==
    /\ file = "ss"
    /\ Len(calls) < MaxCalls
    /\ UNCHANGED <<file, GITHUB_TOKEN, npm_ok, acloseLog>>
    /\ \E p \in ProviderOutcomes :
         IF ss_tools_already_loaded(root_agent_tools)
         THEN /\ UNCHANGED <<_tools, _exit_stack, root_agent_tools, provLog>>
              /\ Return("ensure", "True")
         ELSE LET load   == ss_need_load(_tools)
                  r      == ss_get_tools_async(GITHUB_TOKEN, p)
                  raised == load /\ r.raised
                  g      == IF load THEN store_globals(r) ELSE <<_tools, _exit_stack>>
              IN  /\ _tools' = g[1]
                  /\ _exit_stack' = g[2]
                  /\ root_agent_tools' = IF raised THEN root_agent_tools ELSE g[1][1]
                  /\ provLog' = IF load THEN Invoked(r, p) ELSE provLog
                  /\ Return("ensure", IF raised THEN ss_except_result ELSE "True")

ss_initialize_web_agent_async ==
    /\ file = "ss"
    /\ Len(calls) < MaxCalls
    /\ UNCHANGED <<file, npm_ok, acloseLog>>
    /\ \E v \in ValidateOutcomes("ss"), p \in ProviderOutcomes :
         LET validate == GITHUB_TOKEN = "None"
             token    == IF validate /\ v # "raise" THEN v ELSE GITHUB_TOKEN
         IN  IF validate /\ v = "raise"
             THEN /\ UNCHANGED <<GITHUB_TOKEN, _tools, _exit_stack, root_agent_tools, provLog>>
                  /\ Return("init", "False")
             ELSE LET r == ss_get_tools_async(token, p)
                      g == store_globals(r)
                  IN  /\ GITHUB_TOKEN' = token
                      /\ _tools' = g[1]
                      /\ _exit_stack' = g[2]
                      /\ root_agent_tools' =
                            IF ~r.raised /\ r.tools # <<>> THEN r.tools ELSE root_agent_tools
                      /\ provLog' = Invoked(r, p)
                      /\ Return("init", IF r.raised THEN "False" ELSE "True")

\* A teardown that never reaches the release.
truthy_exit_stack_never(st) == FALSE

\* A teardown that releases without looking at the handle.
truthy_exit_stack_always(st) == TRUE

\* `if _exit_stack:` before the release
truthy_exit_stack(st) == st # NoHandle

\* acloseLog after `await _exit_stack.aclose()` with outcome a, when it is reached.
Closed(a) ==
    IF truthy_exit_stack(_exit_stack)
    THEN Append(acloseLog, [h |-> _exit_stack, raised |-> a = "raise"])
    ELSE acloseLog

ss_cleanup_web_resources ==
    /\ file = "ss"
    /\ Len(calls) < MaxCalls
    /\ UNCHANGED <<file, GITHUB_TOKEN, npm_ok>>
    /\ \E a \in AcloseOutcomes :
         /\ acloseLog' = Closed(a)
         /\ UNCHANGED <<_tools, _exit_stack, root_agent_tools, provLog>>
         /\ Return("teardown", "None")

----------------------------------------------------------------------------
\* ssss.py

ssss_ensure_tools_loaded ==
    /\ file = "ssss"
    /\ Len(calls) < MaxCalls
    /\ UNCHANGED <<file, GITHUB_TOKEN, npm_ok, acloseLog>>
    /\ \E p \in ProviderOutcomes :
         IF root_agent_tools # <<>>
         THEN /\ UNCHANGED <<_tools, _exit_stack, root_agent_tools, provLog>>
              /\ Return("ensure", "True")
         ELSE LET r == ssss_get_tools_async(p)
                  g == store_globals(r)
              IN  /\ _tools' = g[1]
                  /\ _exit_stack' = g[2]
                  /\ root_agent_tools' = IF r.raised THEN root_agent_tools ELSE r.tools
                  /\ provLog' = Invoked(r, p)
                  /\ Return("ensure", IF r.raised THEN "raised" ELSE "True")

ssss_initialize_web_agent_async ==
    /\ file = "ssss"
    /\ Len(calls) < MaxCalls
    /\ UNCHANGED <<file, npm_ok, acloseLog>>
    /\ \E v \in ValidateOutcomes("ssss"), p \in ProviderOutcomes :
         LET validate == GITHUB_TOKEN = "None"
             token    == IF validate /\ v # "raise" THEN v ELSE GITHUB_TOKEN
         IN  IF validate /\ v = "raise"
             THEN /\ UNCHANGED <<GITHUB_TOKEN, _tools, _exit_stack, root_agent_tools, provLog>>
                  /\ Return("init", "raised")
             ELSE LET r == ssss_get_tools_async(p)
                      g == store_globals(r)
                  IN  /\ GITHUB_TOKEN' = token
                      /\ _tools' = g[1]
                      /\ _exit_stack' = g[2]
                      /\ root_agent_tools' = IF r.raised THEN root_agent_tools ELSE r.tools
                      /\ provLog' = Invoked(r, p)
                      /\ Return("init", IF r.raised THEN "raised" ELSE "True")

\* The result of a teardown that does not catch what aclose raises.
Propagated(a) ==
    IF truthy_exit_stack(_exit_stack) /\ a = "raise" THEN "raised" ELSE "None"

ssss_cleanup_web_resources ==
    /\ file = "ssss"
    /\ Len(calls) < MaxCalls
    /\ UNCHANGED <<file, GITHUB_TOKEN, npm_ok>>
    /\ \E a \in AcloseOutcomes :
         /\ acloseLog' = Closed(a)
         /\ UNCHANGED <<_tools, _exit_stack, root_agent_tools, provLog>>
         /\ Return("teardown", Propagated(a))

----------------------------------------------------------------------------
\* app.py

\* get_github_tools: the cached list when _tools is set; else the npm prefix
\* lookup, from_server, and the two assignments (no filter).
get_github_tools(p) ==
    IF _tools # None
    THEN [raised |-> FALSE, called |-> FALSE, tools |-> _tools[1], exit_stack |-> _exit_stack]
    ELSE IF ~npm_ok THEN RaisedBefore
    ELSE IF ~p.ok THEN RaisedIn
    ELSE [raised |-> FALSE, called |-> TRUE, tools |-> p.tools, exit_stack |-> NextHandle]

app_ensure_tools_loaded ==
    /\ file = "app"
    /\ Len(calls) < MaxCalls
    /\ UNCHANGED <<file, GITHUB_TOKEN, npm_ok, acloseLog>>
    /\ \E p \in ProviderOutcomes :
         IF root_agent_tools # <<>>
         THEN /\ UNCHANGED <<_tools, _exit_stack, root_agent_tools, provLog>>
              /\ Return("ensure", "True")
         ELSE LET r == get_github_tools(p)
                  g == store_globals(r)
              IN  /\ _tools' = g[1]
                  /\ _exit_stack' = g[2]
                  /\ root_agent_tools' = IF r.raised THEN root_agent_tools ELSE r.tools
                  /\ provLog' = Invoked(r, p)
                  /\ Return("ensure", IF r.raised THEN "False" ELSE "True")

app_cleanup ==
    /\ file = "app"
    /\ Len(calls) < MaxCalls
    /\ UNCHANGED <<file, GITHUB_TOKEN, npm_ok>>
    /\ \E a \in AcloseOutcomes :
         /\ acloseLog' = Closed(a)
         /\ UNCHANGED <<_tools, _exit_stack, root_agent_tools, provLog>>
         /\ Return("teardown", Propagated(a))

----------------------------------------------------------------------------
\* Sequential calls of the modules' operations, in any order.
Next ==
    \/ ss_ensure_tools_loaded /\ UNCHANGED <<mainVars, raceVars, memVars, ehVars, iaVars>>
    \/ ss_initialize_web_agent_async /\ UNCHANGED <<mainVars, raceVars, memVars, ehVars, iaVars>>
    \/ ss_cleanup_web_resources /\ UNCHANGED <<mainVars, raceVars, memVars, ehVars, iaVars>>
    \/ ssss_ensure_tools_loaded /\ UNCHANGED <<mainVars, raceVars, memVars, ehVars, iaVars>>
    \/ ssss_initialize_web_agent_async /\ UNCHANGED <<mainVars, raceVars, memVars, ehVars, iaVars>>
    \/ ssss_cleanup_web_resources /\ UNCHANGED <<mainVars, raceVars, memVars, ehVars, iaVars>>
    \/ app_ensure_tools_loaded /\ UNCHANGED <<mainVars, raceVars, memVars, ehVars, iaVars>>
    \/ app_cleanup /\ UNCHANGED <<mainVars, raceVars, memVars, ehVars, iaVars>>

Spec == Init /\ [][Next]_vars

-----------------------------------------------------------------------------
\* The entry points: async_main (ss.py, ssss.py), main (app.py) and
\* test_mcp_filesystem (test_mcp.py), each run once in a fresh process.
\* pc is the position inside the entry point, pending says that an exception
\* is being unwound, exit is how the entry point ended.

EntryFiles == Files \cup {"test_mcp"}

InitRun ==
    /\ file \in EntryFiles
    /\ GITHUB_TOKEN \in (IF file = "test_mcp" THEN {"None"} ELSE InitialTokens(file))
    /\ npm_ok \in BOOLEAN
    /\ _tools = None
    /\ _exit_stack = NoHandle
    /\ root_agent_tools = <<>>
    /\ provLog = <<>>
    /\ acloseLog = <<>>
    /\ calls = <<>>
    /\ pc = "start"
    /\ pending = FALSE
    /\ exit = "none"
    /\ implEnsured = FALSE
    /\ parentRuns = <<>>
    /\ RaceIdle
    /\ MemInit
    /\ EhInit
    /\ IaInit

\* The result of the call that has just been appended to the history.
LastRes == calls'[Len(calls')].res

\* ss.py async_main up to the try: without GOOGLE_API_KEY it returns at once.
ss_async_main_start ==
    /\ file = "ss"
    /\ pc = "start"
    /\ \E api_key \in BOOLEAN :
         /\ pc' = IF api_key THEN "preload" ELSE "done"
         /\ exit' = IF api_key THEN exit ELSE "return"
    /\ UNCHANGED <<binderVars, pending, implEnsured, parentRuns>>

\* ss.py async_main: `await root_agent._ensure_tools_loaded()`, result dropped.
ss_async_main_preload ==
    /\ pc = "preload"
    /\ ss_ensure_tools_loaded
    /\ pc' = "run"
    /\ UNCHANGED <<pending, exit, implEnsured, parentRuns>>

\* ssss.py async_main: the preload is the first statement of the try.
ssss_async_main_preload ==
    /\ pc = "start"
    /\ ssss_ensure_tools_loaded
    /\ pending' = (LastRes = "raised")
    /\ pc' = IF LastRes = "raised" THEN "finally" ELSE "run"
    /\ UNCHANGED <<exit, implEnsured, parentRuns>>

\* app.py main: initialize_agent raises ValueError unless the token starts
\* with 'ghp_', the API accepts it and GOOGLE_API_KEY is set.
app_main_initialize ==
    /\ file = "app"
    /\ pc = "start"
    /\ \E accepted \in BOOLEAN :
         LET ok == GITHUB_TOKEN = "ghp" /\ accepted
         IN  /\ pending' = ~ok
             /\ pc' = IF ok THEN "run" ELSE "finally"
    /\ UNCHANGED <<binderVars, exit, implEnsured, parentRuns>>

\* The agent's _run_async_impl without its first statement.
impl_first_step_parent == "parent"

\* The first statement of _run_async_impl is the await on _ensure_tools_loaded.
impl_first_step == "impl"

\* runner.run_async: the runner invokes the agent's _run_async_impl, or
\* raises before it gets there.
runner_run_async ==
    /\ file \in Files
    /\ pc = "run"
    /\ \E o \in {"invoke", "raise"} :
         /\ pending' = (o = "raise")
         /\ pc' = IF o = "raise" THEN "finally" ELSE impl_first_step
    /\ implEnsured' = FALSE
    /\ UNCHANGED <<binderVars, exit, parentRuns>>

\* _run_async_impl: `await self._ensure_tools_loaded()`. ss.py and app.py drop
\* the result; in ssss.py an exception leaves _run_async_impl.
run_async_impl_ensure ==
    /\ pc = "impl"
    /\ \/ ss_ensure_tools_loaded
       \/ ssss_ensure_tools_loaded
       \/ app_ensure_tools_loaded
    /\ implEnsured' = TRUE
    /\ pending' = (LastRes = "raised")
    /\ pc' = IF LastRes = "raised" THEN "finally" ELSE "parent"
    /\ UNCHANGED <<exit, parentRuns>>

\* _run_async_impl: `async for event in super()._run_async_impl(ctx)`: the
\* parent run starts with the agent's tool list as it is now, and ends or raises.
super_run_async_impl ==
    /\ pc = "parent"
    /\ parentRuns' = Append(parentRuns, [tools |-> root_agent_tools, gt |-> _tools,
                                         ensured |-> implEnsured, call |-> Len(calls)])
    /\ \E o \in {"ok", "raise"} : pending' = (o = "raise")
    /\ pc' = "finally"
    /\ UNCHANGED <<binderVars, exit, implEnsured>>

\* How the entry point ends after a finally block whose release raised or not.
ExitAfter(released_raised) == IF pending \/ released_raised THEN "raise" ELSE "return"

\* The finally block of async_main in ss.py and ssss.py:
\* `if _exit_stack: await _exit_stack.aclose()`, nothing caught.
async_main_finally ==
    /\ file \in {"ss", "ssss"}
    /\ pc = "finally"
    /\ UNCHANGED <<file, GITHUB_TOKEN, npm_ok>>
    /\ \E a \in AcloseOutcomes :
         /\ acloseLog' = Closed(a)
         /\ UNCHANGED <<_tools, _exit_stack, root_agent_tools, provLog>>
         /\ Return("teardown", Propagated(a))
    /\ exit' = ExitAfter(LastRes = "raised")
    /\ pc' = "done"
    /\ UNCHANGED <<pending, implEnsured, parentRuns>>

\* app.py main: the except clause logs and re-raises, the finally block
\* awaits cleanup().
app_main_finally ==
    /\ pc = "finally"
    /\ app_cleanup
    /\ exit' = ExitAfter(LastRes = "raised")
    /\ pc' = "done"
    /\ UNCHANGED <<pending, implEnsured, parentRuns>>

\* test_mcp_filesystem: exit_stack = AsyncExitStack(), then
\* create_tools_from_server enters the connection on that stack. _exit_stack
\* stands for the local exit_stack: NoHandle while nothing was entered on it.
test_mcp_create_tools ==
    /\ file = "test_mcp"
    /\ pc = "start"
    /\ UNCHANGED <<file, GITHUB_TOKEN, npm_ok, acloseLog>>
    /\ \E p \in ProviderOutcomes :
         /\ _exit_stack' = IF p.ok THEN NextHandle ELSE _exit_stack
         /\ provLog' = Invoked(RaisedIn, p)
         /\ UNCHANGED <<_tools, root_agent_tools>>
         /\ Return("acquire", IF p.ok THEN "True" ELSE "raised")
         /\ pending' = ~p.ok
         /\ pc' = IF p.ok THEN "use" ELSE "finally"
    /\ UNCHANGED <<exit, implEnsured, parentRuns>>

\* test_mcp_filesystem: `if tools:` it runs the list tool, which may raise.
test_mcp_use_tools ==
    /\ file = "test_mcp"
    /\ pc = "use"
    /\ \E o \in {"ok", "raise"} :
         pending' = (provLog[Len(provLog)].tools # <<>> /\ o = "raise")
    /\ pc' = "finally"
    /\ UNCHANGED <<binderVars, exit, implEnsured, parentRuns>>

\* test_mcp_filesystem: the except clause returns False, the finally block
\* awaits exit_stack.aclose() without a guard; closing a stack nothing was
\* entered on cannot raise.
test_mcp_finally ==
    /\ file = "test_mcp"
    /\ pc = "finally"
    /\ UNCHANGED <<file, GITHUB_TOKEN, npm_ok>>
    /\ \E a \in AcloseOutcomes :
         LET raised == _exit_stack # NoHandle /\ a = "raise"
         IN  /\ acloseLog' = Append(acloseLog, [h |-> _exit_stack, raised |-> raised])
             /\ UNCHANGED <<_tools, _exit_stack, root_agent_tools, provLog>>
             /\ Return("teardown", IF raised THEN "raised" ELSE "None")
             /\ exit' = IF raised THEN "raise" ELSE "return"
    /\ pc' = "done"
    /\ UNCHANGED <<pending, implEnsured, parentRuns>>

NextRun ==
    \/ ss_async_main_start /\ UNCHANGED <<raceVars, memVars, ehVars, iaVars>>
    \/ ss_async_main_preload /\ UNCHANGED <<raceVars, memVars, ehVars, iaVars>>
    \/ ssss_async_main_preload /\ UNCHANGED <<raceVars, memVars, ehVars, iaVars>>
    \/ app_main_initialize /\ UNCHANGED <<raceVars, memVars, ehVars, iaVars>>
    \/ runner_run_async /\ UNCHANGED <<raceVars, memVars, ehVars, iaVars>>
    \/ run_async_impl_ensure /\ UNCHANGED <<raceVars, memVars, ehVars, iaVars>>
    \/ super_run_async_impl /\ UNCHANGED <<raceVars, memVars, ehVars, iaVars>>
    \/ async_main_finally /\ UNCHANGED <<raceVars, memVars, ehVars, iaVars>>
    \/ app_main_finally /\ UNCHANGED <<raceVars, memVars, ehVars, iaVars>>
    \/ test_mcp_create_tools /\ UNCHANGED <<raceVars, memVars, ehVars, iaVars>>
    \/ test_mcp_use_tools /\ UNCHANGED <<raceVars, memVars, ehVars, iaVars>>
    \/ test_mcp_finally /\ UNCHANGED <<raceVars, memVars, ehVars, iaVars>>

SpecRun == InitRun /\ [][NextRun]_vars

-----------------------------------------------------------------------------
\* Two callers of _ensure_tools_loaded on the same agent (ss.py, app.py),
\* scheduled by one event loop: a caller gives up control only at the await
\* on MCPToolset.from_server. Teardowns may run at any point.

RaceFiles == {"ss", "app"}

InitRace ==
    /\ file \in RaceFiles
    /\ GITHUB_TOKEN \in InitialTokens(file)
    /\ npm_ok \in BOOLEAN
    /\ _tools = None
    /\ _exit_stack = NoHandle
    /\ root_agent_tools = <<>>
    /\ provLog = <<>>
    /\ acloseLog = <<>>
    /\ calls = <<>>
    /\ pc = "idle"
    /\ pending = FALSE
    /\ exit = "none"
    /\ implEnsured = FALSE
    /\ parentRuns = <<>>
    /\ tpc = [t \in Tasks |-> "start"]
    /\ overlap = FALSE
    /\ MemInit
    /\ EhInit
    /\ IaInit

\* _ensure_tools_loaded up to the await: it returns True on loaded tools,
\* takes the cached _tools, fails before from_server is reached (the token
\* print of ss.py, the npm prefix lookup), or awaits from_server.
ensure_before_await ==
    IF ss_tools_already_loaded(root_agent_tools) THEN "True"
    ELSE IF ~ss_need_load(_tools) THEN "cached"
    ELSE IF (file = "ss" /\ GITHUB_TOKEN = "None") \/ ~npm_ok THEN "False"
    ELSE "await"

\* What the awaited from_server call hands back once it has returned or
\* raised: ss.py filters the list, app.py does not.
after_await(p) ==
    IF ~p.ok THEN RaisedIn
    ELSE [raised |-> FALSE, called |-> TRUE,
          tools |-> IF file = "ss" THEN filter_tools(p.tools) ELSE p.tools,
          exit_stack |-> NextHandle]

\* A caller runs _ensure_tools_loaded until it returns or is suspended.
race_ensure_enter(t) ==
    /\ tpc[t] = "start"
    /\ Len(calls) < MaxCalls
    /\ UNCHANGED <<file, GITHUB_TOKEN, npm_ok, acloseLog, provLog, _tools, _exit_stack>>
    /\ LET step == ensure_before_await
       IN  /\ tpc' = [tpc EXCEPT ![t] = IF step = "await" THEN "awaiting" ELSE "done"]
           /\ overlap' = (overlap \/ (step = "await" /\ \E u \in Tasks \ {t} : tpc[u] = "awaiting"))
           /\ root_agent_tools' = IF step = "cached" THEN _tools[1] ELSE root_agent_tools
           /\ IF step = "await"
              THEN UNCHANGED calls
              ELSE Return("ensure", IF step = "False" THEN ss_except_result ELSE "True")

\* The provider call of a suspended caller returns or raises, and the caller
\* runs on to its return: the two globals, then the agent's tool list.
race_ensure_resume(t) ==
    /\ tpc[t] = "awaiting"
    /\ Len(calls) < MaxCalls
    /\ UNCHANGED <<file, GITHUB_TOKEN, npm_ok, acloseLog, overlap>>
    /\ tpc' = [tpc EXCEPT ![t] = "done"]
    /\ \E p \in ProviderOutcomes :
         LET r == after_await(p)
             g == store_globals(r)
         IN  /\ _tools' = g[1]
             /\ _exit_stack' = g[2]
             /\ root_agent_tools' = IF r.raised THEN root_agent_tools ELSE g[1][1]
             /\ provLog' = Invoked(r, p)
             /\ Return("ensure", IF r.raised THEN ss_except_result ELSE "True")

NextRace ==
    \/ \E t \in Tasks : race_ensure_enter(t) /\ UNCHANGED <<mainVars, memVars, ehVars, iaVars>>
    \/ \E t \in Tasks : race_ensure_resume(t) /\ UNCHANGED <<mainVars, memVars, ehVars, iaVars>>
    \/ ss_cleanup_web_resources /\ UNCHANGED <<mainVars, raceVars, memVars, ehVars, iaVars>>
    \/ app_cleanup /\ UNCHANGED <<mainVars, raceVars, memVars, ehVars, iaVars>>

SpecRace == InitRace /\ [][NextRace]_vars

-----------------------------------------------------------------------------
\* time_agent/memory_manager.py: TimeAgentMemoryManager and the
\* get_memory_manager singleton.

MaxMemCalls == 3

UserIds == {"time_user", "varun_israni_test"}
PrefTypes == {"name", "timezone"}
PrefValues == {"Varun Israni", "UTC"}

\* How _try_mem0_api goes: no MEM0_API_KEY; the import or MemoryClient(...)
\* raises; the test search raises; or the connection works.
ApiOutcomes == {"no_key", "client_raise", "search_raise", "ok"}

\* How _try_local_mem0 goes: Memory.from_config returns or something raises.
LocalOutcomes == {"ok", "raise"}

\* How self.memory.add goes on a backend client.
AddOutcomes == {"ok", "raise"}

\* The preferences get_user_preferences can recognise in search results.
ParsedPrefs ==
    { [key |-> "name", value |-> "Varun Israni"],
      [key |-> "timezone", value |-> "UTC"],
      [key |-> "time_format", value |-> "24h"] }

\* How self.memory.search goes on a backend client: it raises, or returns
\* results in which any of the three patterns may match.
SearchOutcomes ==
    {[raised |-> TRUE, prefs |-> {}]}
      \cup {[raised |-> FALSE, prefs |-> ps] : ps \in SUBSET ParsedPrefs}

\* __init__ before _initialize_memory_service; _local_storage does not exist yet.
NewManager(user_id) ==
    [user_id |-> user_id, memory |-> "None", storage_type |-> "none",
     is_api_connected |-> FALSE, _local_storage |-> None]

\* _try_mem0_api: self.memory is assigned before the test search.
_try_mem0_api(m, a) ==
    IF a \in {"no_key", "client_raise"} THEN [ok |-> FALSE, m |-> m]
    ELSE IF a = "search_raise"
    THEN [ok |-> FALSE, m |-> [m EXCEPT !.memory = "MemoryClient"]]
    ELSE [ok |-> TRUE,
          m |-> [m EXCEPT !.memory = "MemoryClient", !.storage_type = "api",
                          !.is_api_connected = TRUE]]

_try_local_mem0(m, l) ==
    IF l = "raise" THEN [ok |-> FALSE, m |-> m]
    ELSE [ok |-> TRUE, m |-> [m EXCEPT !.memory = "Memory", !.storage_type = "local"]]

_initialize_memory_service(m, a, l) ==
    LET api == _try_mem0_api(m, a)
        loc == _try_local_mem0(api.m, l)
    IN  IF api.ok THEN api.m
        ELSE IF loc.ok THEN loc.m
        ELSE [loc.m EXCEPT !.storage_type = "memory", !._local_storage = Some({})]

TimeAgentMemoryManager(user_id, a, l) ==
    _initialize_memory_service(NewManager(user_id), a, l)

set_user_id(m, user_id) == [m EXCEPT !.user_id = user_id]

\* dict[key] = value
DictSet(d, key, value) ==
    {e \in d : e.key # key} \cup {[key |-> key, value |-> value]}

\* `if self.storage_type == "none":` in store_user_preference and
\* get_user_preferences
uses_local_storage(m) == m.storage_type = "none"

\* store_user_preference: every exception is caught and turned into False;
\* a missing _local_storage and self.memory being None both raise.
store_user_preference(m, ptype, value, o) ==
    IF uses_local_storage(m)
    THEN IF m._local_storage = None
         THEN [ok |-> FALSE, m |-> m]
         ELSE [ok |-> TRUE,
               m |-> [m EXCEPT !._local_storage =
                                  Some(DictSet(m._local_storage[1], ptype, value))]]
    ELSE IF m.memory = "None" \/ o = "raise"
    THEN [ok |-> FALSE, m |-> m]
    ELSE [ok |-> TRUE, m |-> m]

\* get_user_preferences: every exception is caught and turned into {}.
get_user_preferences(m, o) ==
    IF uses_local_storage(m)
    THEN IF m._local_storage = None THEN {} ELSE m._local_storage[1]
    ELSE IF m.memory = "None" \/ o.raised THEN {} ELSE o.prefs

InitMem ==
    /\ file = "time_agent"
    /\ GITHUB_TOKEN = "None"
    /\ npm_ok = TRUE
    /\ _tools = None
    /\ _exit_stack = NoHandle
    /\ root_agent_tools = <<>>
    /\ provLog = <<>>
    /\ acloseLog = <<>>
    /\ calls = <<>>
    /\ pc = "idle"
    /\ pending = FALSE
    /\ exit = "none"
    /\ implEnsured = FALSE
    /\ parentRuns = <<>>
    /\ RaceIdle
    /\ MemInit
    /\ EhInit
    /\ IaInit

\* The record a finished memory manager call leaves in the history.
MemReturn(op, key, value, ok, prefs) ==
    memCalls' = Append(memCalls,
                       [op |-> op, key |-> key, value |-> value, ok |-> ok,
                        prefs |-> prefs, id |-> _global_memory_manager',
                        inst |-> managers'[_global_memory_manager']])

\* A get-or-create that constructs on every call.
global_is_none_always(g) == TRUE

\* `if _global_memory_manager is None:`
global_is_none(g) == g = NoManager

get_memory_manager ==
    /\ Len(memCalls) < MaxMemCalls
    /\ \E user_id \in UserIds, a \in ApiOutcomes, l \in LocalOutcomes :
         /\ IF global_is_none(_global_memory_manager)
            THEN /\ managers' = Append(managers, TimeAgentMemoryManager(user_id, a, l))
                 /\ _global_memory_manager' = Len(managers')
            ELSE /\ managers' = [managers EXCEPT ![_global_memory_manager] =
                                                    set_user_id(@, user_id)]
                 /\ UNCHANGED _global_memory_manager
         /\ MemReturn("get_memory_manager", user_id, "", TRUE, {})

\* memory_manager.store_user_preference(...) on the instance get_memory_manager
\* returned.
mm_store_user_preference ==
    /\ Len(memCalls) < MaxMemCalls
    /\ _global_memory_manager # NoManager
    /\ UNCHANGED _global_memory_manager
    /\ \E ptype \in PrefTypes, value \in PrefValues, o \in AddOutcomes :
         LET r == store_user_preference(managers[_global_memory_manager], ptype, value, o)
         IN  /\ managers' = [managers EXCEPT ![_global_memory_manager] = r.m]
             /\ MemReturn("store_user_preference", ptype, value, r.ok, {})

\* memory_manager.get_user_preferences() on that instance.
mm_get_user_preferences ==
    /\ Len(memCalls) < MaxMemCalls
    /\ _global_memory_manager # NoManager
    /\ UNCHANGED <<_global_memory_manager, managers>>
    /\ \E o \in SearchOutcomes :
         MemReturn("get_user_preferences", "", "", TRUE,
                   get_user_preferences(managers[_global_memory_manager], o))

NextMem ==
    \/ get_memory_manager /\ UNCHANGED <<binderVars, mainVars, raceVars, ehVars, iaVars>>
    \/ mm_store_user_preference /\ UNCHANGED <<binderVars, mainVars, raceVars, ehVars, iaVars>>
    \/ mm_get_user_preferences /\ UNCHANGED <<binderVars, mainVars, raceVars, ehVars, iaVars>>

SpecMem == InitMem /\ [][NextMem]_vars

-----------------------------------------------------------------------------
\* github_agent/agent.py: EventHandler.

MaxLogCalls == 4

\* Stands for the 1000 of log_event: the number of events the history keeps.
HistoryCap == 2

MaxLimit == 3

\* Event types passed to log_event: two of the registered ones and one that
\* is not in listeners.
LoggedTypes == {"user_message", "error", "custom"}

\* Python's s[-n:] for n >= 0: the last n elements, and all of s for n = 0
\* (and for n >= len(s)).
LastSlice(s, n) ==
    IF n = 0 \/ n >= Len(s) THEN s ELSE SubSeq(s, Len(s) - n + 1, Len(s))

\* `[e for e in events if e['event_type'] == event_type]`
OfType(s, event_type) == SelectSeq(s, LAMBDA e : e.event_type = event_type)

\* A listener test that lets every event type through.
listener_enabled_always(event_type) == TRUE

\* `self.listeners.get(event_type, False)`
listener_enabled(event_type) ==
    IF event_type \in DOMAIN listeners THEN listeners[event_type] ELSE FALSE

\* A history that is never cut.
truncate_never(h) == h

\* `if len(self.event_history) > 1000: self.event_history = self.event_history[-1000:]`
truncate(h) == IF Len(h) > HistoryCap THEN LastSlice(h, HistoryCap) ELSE h

InitEvents ==
    /\ file = "agent"
    /\ GITHUB_TOKEN = "None"
    /\ npm_ok = TRUE
    /\ _tools = None
    /\ _exit_stack = NoHandle
    /\ root_agent_tools = <<>>
    /\ provLog = <<>>
    /\ acloseLog = <<>>
    /\ calls = <<>>
    /\ pc = "idle"
    /\ pending = FALSE
    /\ exit = "none"
    /\ implEnsured = FALSE
    /\ parentRuns = <<>>
    /\ RaceIdle
    /\ MemInit
    /\ EhInit
    /\ IaInit

\* log_event(event_type, data, user_id); the call number stands for the
\* event's timestamp and data.
log_event ==
    /\ logCount < MaxLogCalls
    /\ logCount' = logCount + 1
    /\ UNCHANGED <<listeners, history_enabled>>
    /\ \E event_type \in LoggedTypes :
         LET event == [event_type |-> event_type, n |-> logCount + 1]
             store == listener_enabled(event_type) /\ history_enabled
         IN  /\ event_history' = IF store THEN truncate(Append(event_history, event))
                                          ELSE event_history
             /\ recorded' = IF store THEN Append(recorded, event) ELSE recorded
             /\ lastCall' = [op |-> "log_event", event_type |-> event_type, limit |-> 0,
                             listening |-> listeners,
                             storing |-> history_enabled,
                             ret |-> IF listener_enabled(event_type) THEN Some(event) ELSE None,
                             result |-> <<>>, before |-> event_history]

\* A query without the slice.
limited_all(events, limit) == events

\* `return events[-limit:]`
limited(events, limit) == LastSlice(events, limit)

\* get_event_history(event_type, limit); "None" is event_type=None.
get_event_history ==
    /\ \E event_type \in LoggedTypes \cup {"None"}, limit \in 0..MaxLimit :
         lastCall' = [op |-> "get_event_history", event_type |-> event_type, limit |-> limit,
                      listening |-> listeners, storing |-> history_enabled,
                      ret |-> None,
                      result |-> IF ~history_enabled THEN <<>>
                                 ELSE limited(IF event_type # "None"
                                              THEN OfType(event_history, event_type)
                                              ELSE event_history, limit),
                      before |-> event_history]
    /\ UNCHANGED <<event_history, listeners, history_enabled, recorded, logCount>>

\* A client switches a listener: event_handler.listeners[event_type] = enabled.
set_listener ==
    /\ \E event_type \in {"user_message", "error"}, enabled \in BOOLEAN :
         listeners' = [listeners EXCEPT ![event_type] = enabled]
    /\ UNCHANGED <<event_history, history_enabled, recorded, logCount, lastCall>>

\* A client switches the history: event_handler.history_enabled = enabled.
set_history_enabled ==
    /\ \E enabled \in BOOLEAN : history_enabled' = enabled
    /\ UNCHANGED <<event_history, listeners, recorded, logCount, lastCall>>

NextEvents ==
    \/ log_event /\ UNCHANGED <<binderVars, mainVars, raceVars, memVars, iaVars>>
    \/ get_event_history /\ UNCHANGED <<binderVars, mainVars, raceVars, memVars, iaVars>>
    \/ set_listener /\ UNCHANGED <<binderVars, mainVars, raceVars, memVars, iaVars>>
    \/ set_history_enabled /\ UNCHANGED <<binderVars, mainVars, raceVars, memVars, iaVars>>

SpecEvents == InitEvents /\ [][NextEvents]_vars

-----------------------------------------------------------------------------
\* mcp_agent/improved_agent.py: EventHandler. emit_event calls run on one
\* event loop: a call keeps the loop until a middleware or listener it awaits
\* suspends, and then any other call, or a client changing the registrations,
\* may run.

MaxEmits == 2

MaxCallbacks == 3

\* Callbacks a client registers besides the module's own.
UserCallbacks == {"cb1", "cb2"}

\* The event type emitted and registered for here; the module registers
\* on_user_message for it.
EmitTypes == {"user_message"}

\* What a call of a callback can do. The module's listeners and middleware
\* are async functions without an await that read keys that are always
\* there: they return. A client's callback may return, raise or suspend.
Behaviours(cb) ==
    IF cb \in UserCallbacks THEN {"return", "raise", "suspend"} ELSE {"return"}

Range(seq) == {seq[i] : i \in DOMAIN seq}

\* list.remove(x): drops the first occurrence.
RemoveFirst(seq, x) ==
    LET i == CHOOSE i \in DOMAIN seq : seq[i] = x /\ \A j \in 1..(i - 1) : seq[j] # x
    IN  SubSeq(seq, 1, i - 1) \o SubSeq(seq, i + 1, Len(seq))

InitEmit ==
    /\ file = "improved_agent"
    /\ GITHUB_TOKEN = "None"
    /\ npm_ok = TRUE
    /\ _tools = None
    /\ _exit_stack = NoHandle
    /\ root_agent_tools = <<>>
    /\ provLog = <<>>
    /\ acloseLog = <<>>
    /\ calls = <<>>
    /\ pc = "idle"
    /\ pending = FALSE
    /\ exit = "none"
    /\ implEnsured = FALSE
    /\ parentRuns = <<>>
    /\ RaceIdle
    /\ MemInit
    /\ EhInit
    /\ IaInit

add_listener ==
    /\ running = "none"
    /\ \E event_type \in EmitTypes, callback \in UserCallbacks :
         /\ Len(ia_listeners[event_type]) < MaxCallbacks
         /\ ia_listeners' = [ia_listeners EXCEPT ![event_type] = Append(@, callback)]
    /\ UNCHANGED <<ia_event_history, ia_middleware, running, frames, notified,
                   emitCount, msgIdx, failedAt>>

\* remove_listener; an emit_event call that is notifying listeners of this
\* type no longer counts the callback among those registered throughout.
remove_listener ==
    /\ running = "none"
    /\ \E event_type \in EmitTypes, callback \in UserCallbacks :
         /\ callback \in Range(ia_listeners[event_type])
         /\ ia_listeners' = [ia_listeners EXCEPT ![event_type] = RemoveFirst(@, callback)]
         /\ frames' = [t \in Tasks |->
                         IF frames[t].type = event_type
                         THEN [frames[t] EXCEPT !.stable = @ \cap Range(ia_listeners'[event_type])]
                         ELSE frames[t]]
    /\ UNCHANGED <<ia_event_history, ia_middleware, running, notified,
                   emitCount, msgIdx, failedAt>>

add_middleware ==
    /\ running = "none"
    /\ Len(ia_middleware) < MaxCallbacks
    /\ \E middleware \in UserCallbacks : ia_middleware' = Append(ia_middleware, middleware)
    /\ UNCHANGED <<ia_event_history, ia_listeners, running, frames, notified,
                   emitCount, msgIdx, failedAt>>

\* A step of an emit_event call: a middleware or listener call and how it
\* ended, the append, the return.
Note(kind, cb, out) == [kind |-> kind, cb |-> cb, out |-> out]

\* `'id': len(self.event_history)`, taken when emit_event starts.
event_id(history) == Len(history)

\* emit_event: event_data is built.
emit_event_begin(t) ==
    /\ running = "none"
    /\ frames[t].pc = "idle"
    /\ emitCount < MaxEmits
    /\ emitCount' = emitCount + 1
    /\ running' = t
    /\ \E event_type \in EmitTypes :
         frames' = [frames EXCEPT ![t] =
                      [pc |-> "mw", type |-> event_type,
                       event |-> Some([type |-> event_type,
                                       id |-> event_id(ia_event_history),
                                       n |-> emitCount + 1]),
                       mi |-> 1, li |-> 0, cb |-> "", stable |-> {}, log |-> <<>>]]
    /\ UNCHANGED <<ia_event_history, ia_listeners, ia_middleware, notified, msgIdx, failedAt>>

\* emit_event: `for middleware in self.middleware:` calls the next one, which
\* returns, raises (caught and logged) or suspends.
emit_event_middleware(t) ==
    /\ running = t
    /\ frames[t].pc = "mw"
    /\ frames[t].mi <= Len(ia_middleware)
    /\ LET cb == ia_middleware[frames[t].mi]
       IN  \E b \in Behaviours(cb) :
             IF b = "suspend"
             THEN /\ frames' = [frames EXCEPT ![t].pc = "in_mw", ![t].cb = cb]
                  /\ running' = "none"
             ELSE /\ frames' = [frames EXCEPT ![t].mi = @ + 1,
                                             ![t].log = Append(@, Note("mw", cb, b))]
                  /\ UNCHANGED running
    /\ UNCHANGED <<ia_event_history, ia_listeners, ia_middleware, notified, emitCount,
                   msgIdx, failedAt>>

\* A suspended middleware is resumed and returns or raises.
emit_event_middleware_resume(t) ==
    /\ running = "none"
    /\ frames[t].pc = "in_mw"
    /\ running' = t
    /\ \E o \in {"return", "raise"} :
         frames' = [frames EXCEPT ![t].pc = "mw", ![t].mi = @ + 1, ![t].cb = "",
                                  ![t].log = Append(@, Note("mw", frames[t].cb, o))]
    /\ UNCHANGED <<ia_event_history, ia_listeners, ia_middleware, notified, emitCount,
                   msgIdx, failedAt>>

\* emit_event: `self.event_history.append(event_data)` once the middleware
\* loop is over; the listeners registered for the type now are the ones to notify.
emit_event_append(t) ==
    /\ running = t
    /\ frames[t].pc = "mw"
    /\ frames[t].mi > Len(ia_middleware)
    /\ ia_event_history' = Append(ia_event_history, frames[t].event[1])
    /\ frames' = [frames EXCEPT ![t].pc = "ls", ![t].li = 1,
                                ![t].stable = Range(ia_listeners[frames[t].type]),
                                ![t].log = Append(@, Note("append", "", "return"))]
    /\ UNCHANGED <<ia_listeners, ia_middleware, running, notified, emitCount, msgIdx,
                   failedAt>>

\* emit_event: `for listener in self.listeners[event_type]:` steps through the
\* list as it is now, by position.
emit_event_listener(t) ==
    /\ running = t
    /\ frames[t].pc = "ls"
    /\ frames[t].li <= Len(ia_listeners[frames[t].type])
    /\ LET cb == ia_listeners[frames[t].type][frames[t].li]
       IN  \E b \in Behaviours(cb) :
             IF b = "suspend"
             THEN /\ frames' = [frames EXCEPT ![t].pc = "in_ls", ![t].cb = cb]
                  /\ running' = "none"
             ELSE /\ frames' = [frames EXCEPT ![t].li = @ + 1,
                                             ![t].log = Append(@, Note("listener", cb, b))]
                  /\ UNCHANGED running
    /\ UNCHANGED <<ia_event_history, ia_listeners, ia_middleware, notified, emitCount,
                   msgIdx, failedAt>>

\* A suspended listener is resumed and returns or raises.
emit_event_listener_resume(t) ==
    /\ running = "none"
    /\ frames[t].pc = "in_ls"
    /\ running' = t
    /\ \E o \in {"return", "raise"} :
         frames' = [frames EXCEPT ![t].pc = "ls", ![t].li = @ + 1, ![t].cb = "",
                                  ![t].log = Append(@, Note("listener", frames[t].cb, o))]
    /\ UNCHANGED <<ia_event_history, ia_listeners, ia_middleware, notified, emitCount,
                   msgIdx, failedAt>>

\* emit_event returns when the listener loop has run off the end of the list.
emit_event_return(t) ==
    /\ running = t
    /\ frames[t].pc = "ls"
    /\ frames[t].li > Len(ia_listeners[frames[t].type])
    /\ notified' = [log |-> Append(frames[t].log, Note("return", "", "return")),
                    stable |-> frames[t].stable]
    /\ frames' = [frames EXCEPT ![t] = IdleFrame]
    /\ running' = "none"
    /\ UNCHANGED <<ia_event_history, ia_listeners, ia_middleware, emitCount, msgIdx, failedAt>>

NextEmit ==
    \/ add_listener /\ UNCHANGED <<binderVars, mainVars, raceVars, memVars, ehVars>>
    \/ remove_listener /\ UNCHANGED <<binderVars, mainVars, raceVars, memVars, ehVars>>
    \/ add_middleware /\ UNCHANGED <<binderVars, mainVars, raceVars, memVars, ehVars>>
    \/ \E t \in Tasks : emit_event_begin(t)
                        /\ UNCHANGED <<binderVars, mainVars, raceVars, memVars, ehVars>>
    \/ \E t \in Tasks : emit_event_middleware(t)
                        /\ UNCHANGED <<binderVars, mainVars, raceVars, memVars, ehVars>>
    \/ \E t \in Tasks : emit_event_middleware_resume(t)
                        /\ UNCHANGED <<binderVars, mainVars, raceVars, memVars, ehVars>>
    \/ \E t \in Tasks : emit_event_append(t)
                        /\ UNCHANGED <<binderVars, mainVars, raceVars, memVars, ehVars>>
    \/ \E t \in Tasks : emit_event_listener(t)
                        /\ UNCHANGED <<binderVars, mainVars, raceVars, memVars, ehVars>>
    \/ \E t \in Tasks : emit_event_listener_resume(t)
                        /\ UNCHANGED <<binderVars, mainVars, raceVars, memVars, ehVars>>
    \/ \E t \in Tasks : emit_event_return(t)
                        /\ UNCHANGED <<binderVars, mainVars, raceVars, memVars, ehVars>>

SpecEmit == InitEmit /\ [][NextEmit]_vars

-----------------------------------------------------------------------------
\* mcp_agent/improved_agent.py: process_agent_events, run once on the module's
\* event_handler. It is the only task, and the module's middleware and
\* listeners never suspend or fail, so each emit_event call is one step.

\* len(messages)
NumMessages == 3

\* Events the runner yields in one session.
MaxRunnerEvents == 3

\* emit_event with the module's callbacks: the event is stored with the
\* length of the history as its id. `by` is the function that emitted it.
emit(history, event_type, by) ==
    Append(history, [type |-> event_type, id |-> event_id(history), by |-> by])

\* What handle_event sees in a runner event.
EventKinds == {"content", "actions", "neither"}

\* handle_event: AGENT_RESPONSE for an event with content, else TOOL_CALL for
\* one with actions; when its body raises, its own except clause emits ERROR
\* and the exception ends there.
handle_event(history, kind, fails) ==
    LET classified == IF kind = "content"
                      THEN emit(history, "agent_response", "handle_event")
                      ELSE IF kind = "actions"
                           THEN emit(history, "tool_call", "handle_event")
                           ELSE history
    IN  IF fails THEN emit(classified, "error", "handle_event") ELSE classified

\* `except Exception as e:` does not catch the runner's exception.
except_catches_nothing == FALSE

\* `except Exception as e:` around the message loop catches what the runner raises.
except_catches == TRUE

InitSession ==
    /\ file = "improved_agent"
    /\ GITHUB_TOKEN = "None"
    /\ npm_ok = TRUE
    /\ _tools = None
    /\ _exit_stack = NoHandle
    /\ root_agent_tools = <<>>
    /\ provLog = <<>>
    /\ acloseLog = <<>>
    /\ calls = <<>>
    /\ pc = "start"
    /\ pending = FALSE
    /\ exit = "none"
    /\ implEnsured = FALSE
    /\ parentRuns = <<>>
    /\ RaceIdle
    /\ MemInit
    /\ EhInit
    /\ IaInit

\* The session is created and SESSION_START is emitted, before the try.
pae_session_start ==
    /\ pc = "start"
    /\ ia_event_history' = emit(ia_event_history, "session_start", "process_agent_events")
    /\ msgIdx' = 1
    /\ pc' = "message"
    /\ UNCHANGED <<pending, exit, implEnsured, parentRuns>>
    /\ UNCHANGED <<ia_listeners, ia_middleware, running, frames, notified, emitCount, failedAt>>

\* `for message_text in messages:` emits USER_MESSAGE and starts the runner.
pae_user_message ==
    /\ pc = "message"
    /\ msgIdx <= NumMessages
    /\ ia_event_history' = emit(ia_event_history, "user_message", "process_agent_events")
    /\ pc' = "runner"
    /\ UNCHANGED <<pending, exit, implEnsured, parentRuns>>
    /\ UNCHANGED <<ia_listeners, ia_middleware, running, frames, notified, emitCount,
                   msgIdx, failedAt>>

\* `async for event in runner.run_async(...)`: the runner yields an event and
\* handle_event handles it.
pae_handle_event ==
    /\ pc = "runner"
    /\ emitCount < MaxRunnerEvents
    /\ emitCount' = emitCount + 1
    /\ \E kind \in EventKinds, fails \in BOOLEAN :
         ia_event_history' = handle_event(ia_event_history, kind, fails)
    /\ UNCHANGED mainVars
    /\ UNCHANGED <<ia_listeners, ia_middleware, running, frames, notified, msgIdx, failedAt>>

\* The runner is exhausted; after the pause the loop goes to the next message
\* or, after the last one, leaves the try for the finally clause.
pae_runner_done ==
    /\ pc = "runner"
    /\ msgIdx' = msgIdx + 1
    /\ pc' = IF msgIdx + 1 > NumMessages THEN "finally" ELSE "message"
    /\ UNCHANGED <<pending, exit, implEnsured, parentRuns>>
    /\ UNCHANGED <<ia_event_history, ia_listeners, ia_middleware, running, frames,
                   notified, emitCount, failedAt>>

\* The runner raises: the except clause emits ERROR, then the finally clause runs.
pae_runner_raise ==
    /\ pc = "runner"
    /\ failedAt' = msgIdx
    /\ pc' = "finally"
    /\ IF except_catches
       THEN /\ ia_event_history' = emit(ia_event_history, "error", "process_agent_events")
            /\ UNCHANGED pending
       ELSE /\ pending' = TRUE
            /\ UNCHANGED ia_event_history
    /\ UNCHANGED <<exit, implEnsured, parentRuns>>
    /\ UNCHANGED <<ia_listeners, ia_middleware, running, frames, notified, emitCount, msgIdx>>

\* `finally:` emits SESSION_END; the function returns, or an exception that
\* is still pending goes on to the caller.
pae_finally ==
    /\ pc = "finally"
    /\ ia_event_history' = emit(ia_event_history, "session_end", "process_agent_events")
    /\ pc' = "done"
    /\ exit' = IF pending THEN "raise" ELSE "return"
    /\ UNCHANGED <<pending, implEnsured, parentRuns>>
    /\ UNCHANGED <<ia_listeners, ia_middleware, running, frames, notified, emitCount,
                   msgIdx, failedAt>>

NextSession ==
    \/ pae_session_start /\ UNCHANGED <<binderVars, raceVars, memVars, ehVars>>
    \/ pae_user_message /\ UNCHANGED <<binderVars, raceVars, memVars, ehVars>>
    \/ pae_handle_event /\ UNCHANGED <<binderVars, raceVars, memVars, ehVars>>
    \/ pae_runner_done /\ UNCHANGED <<binderVars, raceVars, memVars, ehVars>>
    \/ pae_runner_raise /\ UNCHANGED <<binderVars, raceVars, memVars, ehVars>>
    \/ pae_finally /\ UNCHANGED <<binderVars, raceVars, memVars, ehVars>>

SpecSession == InitSession /\ [][NextSession]_vars

----------------------------------------------------------------------------
\* Reading the history.

\* The state before any call.
InitSnap == [tools |-> <<>>, gt |-> None, st |-> NoHandle, prov |-> 0, rel |-> 0]

\* The state call i started in: the one call i-1 left.
Pre(i) == IF i = 1 THEN InitSnap ELSE calls[i - 1]

\* Call i left tools, globals and both histories as it found them.
Untouched(i) ==
    /\ calls[i].tools = Pre(i).tools
    /\ calls[i].gt = Pre(i).gt
    /\ calls[i].st = Pre(i).st
    /\ calls[i].prov = Pre(i).prov
    /\ calls[i].rel = Pre(i).rel

\* Call i invoked from_server and from_server raised.
ProviderRaisedIn(i) ==
    /\ calls[i].prov = Pre(i).prov + 1
    /\ ~provLog[calls[i].prov].ok

\* Successful from_server calls among the first n of the history.
SuccessesUpTo(n) == Cardinality({k \in 1..n : provLog[k].ok})
ProviderSuccesses == SuccessesUpTo(Len(provLog))

\* Call i got a handle from the provider.
AcquiredIn(i) == SuccessesUpTo(calls[i].prov) > SuccessesUpTo(Pre(i).prov)

\* aclose() invocations on handle h among the first n of the history.
ReleaseCountUpTo(h, n) == Cardinality({k \in 1..n : acloseLog[k].h = h})
ReleaseCount(h) == ReleaseCountUpTo(h, Len(acloseLog))

OnlyOps(ops) == \A i \in DOMAIN calls : calls[i].op \in ops

----------------------------------------------------------------------------
\* C1: in ss.py and app.py, once an _ensure_tools_loaded call has returned True
\* with a non-empty tool list, every later _ensure_tools_loaded call returns
\* True, invokes the provider no more and leaves the agent's tools and the
\* stored exit stack as they were; and over any sequence of
\* _ensure_tools_loaded calls the provider succeeds at most once.
C1_EnsureLoadedIdempotent ==
    file \in {"ss", "app"} =>
      /\ \A i, j \in DOMAIN calls :
           ( /\ i < j
             /\ calls[i].op = "ensure" /\ calls[i].res = "True" /\ calls[i].tools # <<>>
             /\ calls[j].op = "ensure" )
           => /\ calls[j].res = "True"
              /\ calls[j].prov = Pre(j).prov
              /\ calls[j].tools = Pre(j).tools
              /\ calls[j].st = Pre(j).st
      /\ OnlyOps({"ensure"}) => ProviderSuccesses <= 1

C1_Witness ==
    /\ file \in {"ss", "app"}
    /\ OnlyOps({"ensure"})
    /\ Len(calls) >= 3
    /\ calls[1].res = "False"
    /\ calls[2].res = "True" /\ calls[2].tools # <<>>
    /\ calls[3].res = "True"
    /\ ProviderSuccesses = 1

\* C2: in ss.py and app.py, when the provider call raises inside
\* _ensure_tools_loaded, the agent's tools are empty afterwards, _tools and
\* _exit_stack are both None, and an _ensure_tools_loaded call made next
\* invokes the provider again.
C2_FailureLeavesEmpty ==
    file \in {"ss", "app"} =>
      \A i \in DOMAIN calls :
        (calls[i].op = "ensure" /\ ProviderRaisedIn(i))
        => /\ calls[i].tools = <<>>
           /\ calls[i].gt = None
           /\ calls[i].st = NoHandle
           /\ (i + 1 \in DOMAIN calls /\ calls[i + 1].op = "ensure")
                => calls[i + 1].prov = calls[i].prov + 1

C2_Witness ==
    /\ file \in {"ss", "app"}
    /\ Len(calls) >= 2
    /\ calls[1].op = "ensure" /\ ProviderRaisedIn(1)
    /\ calls[2].op = "ensure" /\ calls[2].prov = 2

\* C3: when the first _ensure_tools_loaded gets (["toolA"], handle) from the
\* provider, two _ensure_tools_loaded calls followed by one teardown leave
\* exactly one provider invocation and exactly one aclose, on that handle.
C3_LoadLoadTeardown ==
    ( /\ Len(calls) >= 3
      /\ calls[1].op = "ensure" /\ calls[2].op = "ensure" /\ calls[3].op = "teardown"
      /\ calls[1].prov = 1
      /\ provLog[1].ok /\ provLog[1].tools = <<"toolA">> )
    => /\ calls[3].prov = 1
       /\ calls[3].rel = 1
       /\ acloseLog[1].h = provLog[1].h

C3_Witness ==
    /\ file = "ss"
    /\ Len(calls) = 3
    /\ calls[1].op = "ensure" /\ calls[2].op = "ensure" /\ calls[3].op = "teardown"
    /\ Len(provLog) = 1 /\ provLog[1].ok /\ provLog[1].tools = <<"toolA">>
    /\ Len(acloseLog) = 1

\* C4: while every provider call has raised, every _ensure_tools_loaded call
\* has reported a failure (False in ss.py and app.py, a raise in ssss.py),
\* none has reported success, and the agent's tools are empty.
C4_AlwaysFailingProvider ==
    (\A k \in DOMAIN provLog : ~provLog[k].ok) =>
      /\ root_agent_tools = <<>>
      /\ \A i \in DOMAIN calls :
           calls[i].op = "ensure" =>
             /\ calls[i].res = (IF file = "ssss" THEN "raised" ELSE "False")
             /\ calls[i].tools = <<>>

C4_Witness ==
    /\ Len(calls) >= 3
    /\ OnlyOps({"ensure"})
    /\ Len(provLog) = Len(calls)
    /\ \A k \in DOMAIN provLog : ~provLog[k].ok
    /\ file = "ss"

\* C5: a teardown made when no provider call has succeeded (no load attempted,
\* or every attempt failed) invokes no aclose, changes neither _tools,
\* _exit_stack nor the agent's tools, and returns without raising.
C5_TeardownBeforeLoad ==
    \A i \in DOMAIN calls :
      ( /\ calls[i].op = "teardown"
        /\ \A k \in 1..Pre(i).prov : ~provLog[k].ok )
      => /\ Untouched(i)
         /\ calls[i].rel = 0
         /\ calls[i].res = "None"

C5_Witness ==
    /\ Len(calls) >= 3
    /\ calls[1].op = "teardown"
    /\ calls[2].op = "ensure" /\ ProviderRaisedIn(2)
    /\ calls[3].op = "teardown"
    /\ file = "app"

\* C6: of two teardowns in a row after a successful load, the second is a
\* no-op: across both, aclose is invoked exactly once, and the second
\* returns without raising.
C6_SecondTeardownNoop ==
    \A i \in DOMAIN calls :
      ( /\ i > 1
        /\ calls[i - 1].op = "teardown" /\ calls[i].op = "teardown"
        /\ Pre(i - 1).st # NoHandle /\ Pre(i - 1).tools # <<>> )
      => /\ calls[i].rel - Pre(i - 1).rel = 1
         /\ calls[i].res = "None"

\* C7: in ss.py, after any sequence of calls that ends with
\* cleanup_web_resources, every handle the provider returned has had aclose
\* invoked on it exactly once.
C7_EveryHandleReleasedOnce ==
    (file = "ss" /\ calls # <<>> /\ calls[Len(calls)].op = "teardown") =>
      \A k \in DOMAIN provLog :
        provLog[k].ok => ReleaseCount(provLog[k].h) = 1

\* C8: after any sequence of load operations and before any teardown,
\* _exit_stack holds a handle if and only if the agent's tool list is
\* non-empty.
C8_HandleIffTools ==
    OnlyOps({"ensure", "init"}) =>
      ((_exit_stack # NoHandle) <=> (root_agent_tools # <<>>))

\* C9: in ss.py and ssss.py, over any sequence of _ensure_tools_loaded and
\* initialize_web_agent_async calls, a call that starts with a populated tool
\* list acquires nothing more from the provider and replaces neither the
\* stored tools nor the stored handle.
C9_PopulatedOnce ==
    (file \in {"ss", "ssss"} /\ OnlyOps({"ensure", "init"})) =>
      \A i \in DOMAIN calls :
        Pre(i).tools # <<>> =>
          /\ ~AcquiredIn(i)
          /\ calls[i].tools = Pre(i).tools
          /\ calls[i].gt = Pre(i).gt
          /\ calls[i].st = Pre(i).st

\* C10: once a teardown has released the handle of a loaded binder, no later
\* call acquires from the provider again, and none leaves the binder with
\* tools and a handle on which aclose was never invoked.
C10_ClosedIsTerminal ==
    \A i, j \in DOMAIN calls :
      ( /\ i < j
        /\ calls[i].op = "teardown"
        /\ Pre(i).st # NoHandle /\ Pre(i).tools # <<>> )
      => /\ ~AcquiredIn(j)
         /\ ~( /\ calls[j].tools # <<>>
               /\ calls[j].st # NoHandle
               /\ ReleaseCountUpTo(calls[j].st, calls[j].rel) = 0 )

\* C11: once aclose has been invoked on the handle behind the agent's tools,
\* an _ensure_tools_loaded call that finds those tools still in the agent's
\* tool list does not return True.
C11_ReleasedToolsRejected ==
    \A i \in DOMAIN calls :
      ( /\ calls[i].op = "ensure"
        /\ ProviderSuccesses = 1
        /\ Pre(i).tools # <<>>
        /\ Pre(i).st # NoHandle
        /\ ReleaseCountUpTo(Pre(i).st, Pre(i).rel) >= 1 )
      => calls[i].res # "True"

\* C12: in ss.py and app.py a teardown never lets an error raised by aclose
\* reach its caller.
C12_CleanupFailureCaught ==
    file \in {"ss", "app"} =>
      \A i \in DOMAIN calls :
        calls[i].op = "teardown" => calls[i].res # "raised"

\* C16: MCPToolset.from_server is only ever invoked while GITHUB_TOKEN is a
\* token that starts with 'ghp_'.
C16_NoAcquisitionWithoutToken ==
    \A k \in DOMAIN provLog : provLog[k].token = "ghp"

\* C20: in ssss.py, over any sequence of _ensure_tools_loaded calls, at most
\* one provider call succeeds and no stored handle is replaced by another
\* while aclose was never invoked on it.
C20_SsssAcquiresOnce ==
    (file = "ssss" /\ OnlyOps({"ensure"})) =>
      /\ ProviderSuccesses <= 1
      /\ \A i \in DOMAIN calls :
           (Pre(i).st # NoHandle /\ ReleaseCountUpTo(Pre(i).st, Pre(i).rel) = 0)
             => calls[i].st = Pre(i).st

\* C13: when async_main (ss.py), main (app.py) or test_mcp_filesystem has
\* ended, by return or by raise, aclose has been invoked on every handle a
\* successful provider call returned during the run.
C13_CleanupOnEveryExit ==
    (pc = "done" /\ file \in {"ss", "app", "test_mcp"}) =>
      \A k \in DOMAIN provLog :
        provLog[k].ok => ReleaseCount(provLog[k].h) >= 1

C13_Witness ==
    /\ pc = "done"
    /\ file \in {"ss", "app"}
    /\ pending
    /\ exit = "raise"
    /\ ProviderSuccesses = 1
    /\ ReleaseCount(_exit_stack) = 1

\* C14: whenever the parent's _run_async_impl starts, the _ensure_tools_loaded
\* call of this _run_async_impl has finished, and the tools that were loaded
\* are the agent's tool list.
C14_ToolsAssignedBeforeParent ==
    \A k \in DOMAIN parentRuns :
      /\ parentRuns[k].ensured
      /\ parentRuns[k].gt # None => parentRuns[k].tools = parentRuns[k].gt[1]

C14_Witness ==
    /\ Len(parentRuns) = 1
    /\ parentRuns[1].ensured
    /\ parentRuns[1].tools # <<>>
    /\ AcquiredIn(parentRuns[1].call)

\* C15: in ss.py and app.py, the parent's _run_async_impl does not start after
\* the lazy load of this _run_async_impl invoked the provider and the provider
\* raised.
C15_AcquisitionFailureSurfaced ==
    file \in {"ss", "app"} =>
      \A k \in DOMAIN parentRuns :
        ~( /\ parentRuns[k].call \in DOMAIN calls
           /\ calls[parentRuns[k].call].op = "ensure"
           /\ ProviderRaisedIn(parentRuns[k].call) )

\* C17: when two _ensure_tools_loaded calls were suspended in the provider
\* call together and both have returned, the provider was invoked twice; and
\* if both invocations succeeded, _exit_stack holds the second handle, not the
\* first, and no aclose is invoked on the first handle from then on.
C17_RaceOverwritesHandle ==
    (overlap /\ \A t \in Tasks : tpc[t] = "done") =>
      /\ Len(provLog) = 2
      /\ (provLog[1].ok /\ provLog[2].ok) =>
           /\ _exit_stack = provLog[2].h
           /\ _exit_stack # provLog[1].h
           /\ \A j \in DOMAIN calls :
                calls[j].prov = 2 =>
                  \A k \in (calls[j].rel + 1)..Len(acloseLog) :
                    acloseLog[k].h # provLog[1].h

C17_Witness ==
    /\ overlap
    /\ \A t \in Tasks : tpc[t] = "done"
    /\ Len(provLog) = 2 /\ provLog[1].ok /\ provLog[2].ok
    /\ _exit_stack = provLog[2].h
    /\ ReleaseCount(provLog[1].h) = 0
    /\ ReleaseCount(provLog[2].h) >= 1

\* C18: on a manager in the ultimate in-memory fallback (neither the Mem0 API
\* nor local Mem0 came up), store_user_preference(type, value) returns True
\* and a get_user_preferences call made next returns a mapping that holds
\* type -> value.
C18_FallbackStoresLocally ==
    \A i \in DOMAIN memCalls :
      ( /\ memCalls[i].op = "store_user_preference"
        /\ memCalls[i].inst.storage_type = "memory" )
      => /\ memCalls[i].ok
         /\ (i + 1 \in DOMAIN memCalls /\ memCalls[i + 1].op = "get_user_preferences")
              => [key |-> memCalls[i].key, value |-> memCalls[i].value]
                   \in memCalls[i + 1].prefs

\* C19: at most one TimeAgentMemoryManager is ever constructed, every
\* get_memory_manager call returns that instance, and when the call returns
\* the instance's user_id is the user_id that was passed.
C19_MemoryManagerSingleton ==
    /\ Len(managers) <= 1
    /\ \A i \in DOMAIN memCalls :
         memCalls[i].op = "get_memory_manager"
         => /\ memCalls[i].id = 1
            /\ memCalls[i].inst.user_id = memCalls[i].key

C19_Witness ==
    /\ Len(memCalls) >= 3
    /\ memCalls[1].op = "get_memory_manager"
    /\ memCalls[2].op = "store_user_preference"
    /\ memCalls[3].op = "get_memory_manager"
    /\ memCalls[3].key # memCalls[1].key
    /\ memCalls[3].id = memCalls[1].id
    /\ Len(managers) = 1
    /\ managers[1].user_id = memCalls[3].key

\* C27: every constructed TimeAgentMemoryManager has storage_type api, local
\* or memory, is_api_connected exactly when storage_type is api, and a backend
\* client in self.memory exactly when storage_type is api or local.
C27_InitFallbackState ==
    \A k \in DOMAIN managers :
      /\ managers[k].storage_type \in {"api", "local", "memory"}
      /\ managers[k].is_api_connected <=> managers[k].storage_type = "api"
      /\ managers[k].memory # "None" <=> managers[k].storage_type \in {"api", "local"}

\* C21: the history never holds more than the cap, and it is exactly the most
\* recent min(n, cap) of the n events recorded so far, oldest first.
C21_HistoryBounded ==
    /\ Len(event_history) <= HistoryCap
    /\ event_history = LastSlice(recorded, IF Len(recorded) < HistoryCap
                                          THEN Len(recorded) ELSE HistoryCap)

C21_Witness ==
    /\ Len(recorded) > HistoryCap
    /\ Len(event_history) = HistoryCap
    /\ event_history[1] = recorded[Len(recorded) - HistoryCap + 1]
    /\ lastCall.op = "log_event"
    /\ Len(lastCall.before) = HistoryCap

\* C22: get_event_history(event_type, limit) returns at most limit events,
\* for limit 0 too: the most recent limit events of the history that match
\* event_type (all of them for None), oldest first, and nothing when the
\* history is disabled.
C22_QueryRespectsLimit ==
    lastCall.op = "get_event_history" =>
      LET matching == IF lastCall.event_type = "None" THEN lastCall.before
                      ELSE OfType(lastCall.before, lastCall.event_type)
          n        == IF lastCall.limit < Len(matching) THEN lastCall.limit ELSE Len(matching)
      IN  /\ Len(lastCall.result) <= lastCall.limit
          /\ lastCall.storing =>
               lastCall.result = SubSeq(matching, Len(matching) - n + 1, Len(matching))
          /\ ~lastCall.storing => lastCall.result = <<>>

\* The event type of call c had a registered, enabled listener when c was made.
Listening(c) ==
    /\ c.event_type \in DOMAIN c.listening
    /\ c.listening[c.event_type]

\* C23: log_event returns None and leaves the history alone when the listener
\* of the event type is disabled or not registered; with the history disabled
\* it returns the event and leaves the history alone.
C23_LogEventFrame ==
    lastCall.op = "log_event" =>
      /\ ~Listening(lastCall) =>
           (lastCall.ret = None /\ event_history = lastCall.before)
      /\ (Listening(lastCall) /\ ~lastCall.storing) =>
           (lastCall.ret # None /\ lastCall.ret[1].event_type = lastCall.event_type
            /\ event_history = lastCall.before)

C23_Witness ==
    /\ lastCall.op = "log_event"
    /\ lastCall.event_type = "error"
    /\ ~Listening(lastCall)
    /\ lastCall.storing
    /\ lastCall.ret = None
    /\ event_history # <<>>
    /\ event_history = lastCall.before

\* C24: every stored event's id is its index in event_history (counted from
\* 0), so no two stored events share an id.
C24_EventIdsUnique ==
    \A i \in DOMAIN ia_event_history : ia_event_history[i].id = i - 1

\* C25: when an emit_event call returns, its event was appended exactly once,
\* after all of its middleware calls and before all of its listener calls, and
\* every listener that was registered for the type all through the
\* notification was called, whatever the earlier listeners did.
C25_EmitIsolatesAndOrders ==
    notified.log # <<>> =>
        LET log     == notified.log
            appends == {j \in DOMAIN log : log[j].kind = "append"}
        IN  /\ Cardinality(appends) = 1
            /\ \A j \in DOMAIN log, a \in appends :
                 /\ log[j].kind = "mw" => j < a
                 /\ log[j].kind = "listener" => j > a
            /\ \A cb \in notified.stable :
                 \E j \in DOMAIN log : log[j].kind = "listener" /\ log[j].cb = cb

\* The number of events of a type in the history, emitted by a function.
CountEmitted(event_type, by) ==
    Cardinality({i \in DOMAIN ia_event_history :
                   /\ ia_event_history[i].type = event_type
                   /\ ia_event_history[i].by = by})

\* C26: SESSION_START is the first event of a session and emitted once;
\* SESSION_END is emitted once, as the last event, and not before the session
\* is over. When the runner raised during a message, process_agent_events
\* emitted one ERROR event, right before SESSION_END, no message after that
\* one was emitted, and process_agent_events returned normally; when it did
\* not raise, every message was emitted.
C26_SessionBracketed ==
    LET h == ia_event_history
        P == "process_agent_events"
    IN  /\ h # <<>> => h[1].type = "session_start" /\ CountEmitted("session_start", P) = 1
        /\ CountEmitted("session_start", "handle_event") = 0
        /\ CountEmitted("session_end", "handle_event") = 0
        /\ pc # "done" => CountEmitted("session_end", P) = 0 /\ exit = "none"
        /\ pc = "done" =>
             /\ h[Len(h)].type = "session_end"
             /\ CountEmitted("session_end", P) = 1
             /\ exit = "return"
             /\ failedAt # 0 =>
                  /\ h[Len(h) - 1].type = "error"
                  /\ h[Len(h) - 1].by = P
                  /\ CountEmitted("error", P) = 1
                  /\ CountEmitted("user_message", P) = failedAt
             /\ failedAt = 0 =>
                  /\ CountEmitted("error", P) = 0
                  /\ CountEmitted("user_message", P) = NumMessages

\* The runner raised before the last message, after handle_event had emitted
\* an error of its own, and the session is over.
C26_Witness ==
    /\ pc = "done"
    /\ failedAt # 0
    /\ failedAt < NumMessages
    /\ CountEmitted("error", "handle_event") > 0

====
